---- MODULE Spec2Model ----
(***************************************************************************)
(* Model of rapor/report_with_api.py: the two emotion-chart renderers      *)
(* (create_emotion_charts_html, create_emotion_charts_html_2) as pure      *)
(* operators, and the generate_report endpoint as a state machine.         *)
(*                                                                         *)
(* Numbers.  Every numeric field of a record is round(x, 2) (lines         *)
(* 734-755), so a value is held as an integer count of hundredths          *)
(* (40.0 is 4000, 2.5 is 250).  Chart geometry is exact rational           *)
(* arithmetic on pairs [n, d].  int() truncates the IEEE double the code   *)
(* computes: where the exact result is a whole number and the double lies  *)
(* just below it (for 5.6, (5.6/100)*250 is 13.999...), int() gives one    *)
(* less than the exact result; AbsTruncatedBelow and DiffTruncatedBelow     *)
(* list the values of 0.00..100.00 for which that happens.                 *)
(***************************************************************************)
EXTENDS Integers, Sequences, FiniteSets, TLC

VARIABLES
    \* ---- chart renderers called as pure functions
    emotion_data,   \* the mapping handed to a renderer
    abs_chart,      \* result of create_emotion_charts_html, or Pending
    diff_chart,     \* result of create_emotion_charts_html_2, or Pending
    \* ---- one invocation of generate_report
    pc,             \* position of the invocation in generate_report
    upload,         \* the uploaded file: name suffix and content
    logo_file,      \* state of logo.png next to the script
    gen_reply,      \* what the generation collaborator answers
    pdf_result,     \* outcome of the rendering collaborator
    df,             \* parsed table: columns and rows
    row,            \* current_row_data
    prompt,         \* instruction payload, or NoPrompt
    soup,           \* the document tree, a sequence of nodes
    final_html,     \* soup.prettify(), or <<>> before serialisation
    response,       \* what the caller receives
    gen_calls,      \* calls made to gemini_model.generate_content
    pdf_calls,      \* calls made to create_pdf_from_html
    debug_written,  \* whether the debug html file was written
    \* ---- several invocations of generate_report in one server process
    inv,            \* per invocation: control position, inputs and results
    files,          \* the debug html files in the working directory
    running         \* the invocation that holds the event loop, or 0

chartVars == <<emotion_data, abs_chart, diff_chart>>
pipeVars  == <<pc, upload, logo_file, gen_reply, pdf_result, df, row, prompt, soup,
               final_html, response, gen_calls, pdf_calls, debug_written>>
concVars  == <<inv, files, running>>
vars == <<emotion_data, abs_chart, diff_chart, pc, upload, logo_file, gen_reply,
          pdf_result, df, row, prompt, soup, final_html, response, gen_calls,
          pdf_calls, debug_written, inv, files, running>>

(***************************************************************************)
(* Bounds                                                                  *)
(***************************************************************************)
\* at most this many fields of a chart input differ from 0
MaxVaried == 2
\* at most this many columns are missing from an uploaded table
MaxMissing == 1
\* at most this many data rows in an uploaded table
MaxRows == 1
\* at most this many pieces in a generated document
MaxDocLen == 3
\* invocations of generate_report that overlap in time
NumInvocations == 2

(***************************************************************************)
(* Exact rational arithmetic for Python's float expressions                *)
(***************************************************************************)
Abs(k) == IF k < 0 THEN -k ELSE k

RECURSIVE GCD(_, _)
GCD(a, b) == IF b = 0 THEN a ELSE GCD(b, a % b)

\* the rational n/d, d > 0, in lowest terms
Rat(n, d) ==
    LET g == GCD(Abs(n), d)
    IN  [n |-> n \div g, d |-> d \div g]

FromInt(k) == [n |-> k, d |-> 1]
\* a value held in hundredths, as a number
FromHundredths(h) == Rat(h, 100)

RAdd(a, b) == Rat(a.n * b.d + b.n * a.d, a.d * b.d)
RSub(a, b) == Rat(a.n * b.d - b.n * a.d, a.d * b.d)
RMul(a, b) == Rat(a.n * b.n, a.d * b.d)
\* a / b, b # 0
RDiv(a, b) ==
    IF b.n > 0 THEN Rat(a.n * b.d, a.d * b.n)
               ELSE Rat(-(a.n * b.d), a.d * (-b.n))
RLt(a, b) == a.n * b.d < b.n * a.d
RLe(a, b) == a.n * b.d <= b.n * a.d
RAbs(a) == [n |-> Abs(a.n), d |-> a.d]
\* Python int(): truncation toward zero
RInt(a) == IF a.n >= 0 THEN a.n \div a.d ELSE -((-a.n) \div a.d)

RECURSIVE SubsetsUpTo(_, _)
\* the subsets of S with at most k elements
SubsetsUpTo(S, k) ==
    IF k = 0 THEN {{}}
    ELSE LET smaller == SubsetsUpTo(S, k - 1)
         IN  smaller \cup { T \cup {x} : T \in smaller, x \in S }

RECURSIVE SeqMaxFrom(_, _, _)
SeqMaxFrom(s, i, best) ==
    IF i > Len(s) THEN best
    ELSE SeqMaxFrom(s, i + 1, IF RLt(best, s[i]) THEN s[i] ELSE best)
\* Python max() over a non-empty sequence of numbers
SeqMax(s) == SeqMaxFrom(s, 2, s[1])

(***************************************************************************)
(* Chart renderers                                                         *)
(***************************************************************************)
emotion_keys_ordered ==
    << "duygu_mutlu_%", "duygu_kizgin_%", "duygu_igrenme_%", "duygu_korku_%",
       "duygu_uzgun_%", "duygu_saskin_%", "duygu_dogal_%" >>

avg_keys ==
    << "avg_duygu_mutlu_%", "avg_duygu_kizgin_%", "avg_duygu_igrenme_%",
       "avg_duygu_korku_%", "avg_duygu_uzgun_%", "avg_duygu_saskin_%",
       "avg_duygu_dogal_%" >>

labels_map ==
    [ k \in {emotion_keys_ordered[i] : i \in 1..7} |->
        CASE k = "duygu_mutlu_%"   -> "Mutlu"
          [] k = "duygu_kizgin_%"  -> "Kizgin"
          [] k = "duygu_igrenme_%" -> "Igrenme"
          [] k = "duygu_korku_%"   -> "Korku"
          [] k = "duygu_uzgun_%"   -> "Uzgun"
          [] k = "duygu_saskin_%"  -> "Saskin"
          [] k = "duygu_dogal_%"   -> "Dogal" ]

base_height == 250
svg_width   == 600
padding     == 40
bar_spacing == 15
label_offset == 5
min_scale   == 5
fallback_bar_width == 20
label_flip_limit == 15

\* dict.get(key, 0)
DictGet(d, key) == IF key \in DOMAIN d THEN d[key] ELSE 0

\* the "no data" placeholder paragraph
NoData == [kind |-> "nodata"]
Pending == [kind |-> "pending"]

RECURSIVE CollectNonZero(_, _)
\* CollectPresent that also drops the keys whose value is 0
CollectNonZero(d, i) ==
    IF i > 7 THEN <<>>
    ELSE LET key == emotion_keys_ordered[i]
         IN  IF key \in DOMAIN d /\ d[key] # 0
             THEN << [name |-> labels_map[key], value |-> d[key]] >>
                    \o CollectNonZero(d, i + 1)
             ELSE CollectNonZero(d, i + 1)

RECURSIVE CollectAll(_, _)
\* CollectPresent that takes every canonical key, a missing one as 0
CollectAll(d, i) ==
    IF i > 7 THEN <<>>
    ELSE << [name |-> labels_map[emotion_keys_ordered[i]],
             value |-> DictGet(d, emotion_keys_ordered[i])] >>
           \o CollectAll(d, i + 1)

RECURSIVE CollectPresent(_, _)
\* lines 101-105: the canonical keys present in the mapping, in canonical order
CollectPresent(d, i) ==
    IF i > Len(emotion_keys_ordered) THEN <<>>
    ELSE LET key == emotion_keys_ordered[i]
         IN  IF key \in DOMAIN d
             THEN << [name |-> labels_map[key], value |-> DictGet(d, key)] >>
                    \o CollectPresent(d, i + 1)
             ELSE CollectPresent(d, i + 1)

\* AbsMaxValue with the floor set to 50 instead of 5
\* AbsMaxValue that scales every chart to 5
AbsMaxValueFixed5(emotion_values) == FromInt(min_scale)

AbsMaxValueFloor50(emotion_values) ==
    LET m == SeqMax([i \in 1..Len(emotion_values) |->
                        FromHundredths(emotion_values[i].value)])
    IN  IF RLt(m, FromInt(50)) THEN FromInt(50) ELSE m

\* lines 112-114: max(values), raised to 5 when below it
AbsMaxValue(emotion_values) ==
    LET m == SeqMax([i \in 1..Len(emotion_values) |->
                        FromHundredths(emotion_values[i].value)])
    IN  IF RLt(m, FromInt(min_scale)) THEN FromInt(min_scale) ELSE m

\* line 115: the largest values, in hundredths, for which the double
\* (max_value / 100) * base_height lies just below the whole number that
\* exact arithmetic gives
AbsTruncatedBelow ==
    { 560, 1120, 1160, 1640, 2240, 2320, 3280, 3880, 4040, 4480, 4640, 5480,
      6560, 6680, 6760, 7560, 7760, 7880, 7960, 8080, 8760, 8960, 9080, 9160,
      9280 }

\* line 255: the same for the double panel * 2 + padding * 2
DiffTruncatedBelow ==
    { 2740, 3280, 3340, 3380, 5380, 5480, 5540, 5580, 6460, 6560, 6580, 6660,
      6680, 6760, 6780, 7560, 7660, 7760, 7860, 7880, 7960, 7980, 8060, 8080 }

\* a rational number of hundredths as that integer
Hundredths(a) == RInt(RMul(a, FromInt(100)))

\* line 115: int() of the double, then + 80
AbsSvgHeight(max_value) ==
    LET exact == RInt(RMul(RDiv(max_value, FromInt(100)), FromInt(base_height)))
        below == Hundredths(max_value) \in AbsTruncatedBelow
    IN  (IF below THEN exact - 1 ELSE exact) + 2 * padding

\* lines 123-125 and 259
BarWidth(num_bars) ==
    LET w == Rat(svg_width - 2 * padding - (num_bars - 1) * bar_spacing, num_bars)
    IN  w

\* lines 123-125: the width, replaced by 20 when not positive
AbsBarWidth(num_bars) ==
    LET w == BarWidth(num_bars)
    IN  IF RLe(w, FromInt(0)) THEN FromInt(fallback_bar_width) ELSE w

\* line 153 and 294
BarX(i, bar_width) ==
    RAdd(FromInt(padding), RMul(FromInt(i), RAdd(bar_width, FromInt(bar_spacing))))

\* lines 152-175: the i-th bar (i counted from 0 as enumerate does)
AbsBar(emotion, i, max_value, svg_height, bar_width) ==
    LET x == BarX(i, bar_width)
        bar_height == RMul(RDiv(FromHundredths(emotion.value), max_value),
                           FromInt(svg_height - 2 * padding))
        y == RSub(FromInt(svg_height - padding), bar_height)
        above == RSub(y, FromInt(label_offset))
        flipped == RLt(above, FromInt(label_flip_limit))
    IN  [ name    |-> emotion.name,
          value   |-> emotion.value,
          x       |-> x,
          y       |-> y,
          width   |-> bar_width,
          height  |-> bar_height,
          text_y  |-> IF flipped THEN RAdd(y, FromInt(label_flip_limit)) ELSE above,
          flipped |-> flipped,
          label_y |-> svg_height - padding + 20 ]

\* lines 60-184
create_emotion_charts_html(d) ==
    LET emotion_values == CollectPresent(d, 1)
    IN  IF emotion_values = <<>> THEN NoData
        ELSE LET max_value  == AbsMaxValue(emotion_values)
                 svg_height == AbsSvgHeight(max_value)
                 num_bars   == Len(emotion_values)
                 bar_width  == AbsBarWidth(num_bars)
             IN  [ kind       |-> "abs",
                   svg_width  |-> svg_width,
                   svg_height |-> svg_height,
                   max_value  |-> max_value,
                   axis_y     |-> svg_height - padding,
                   bars       |-> [ i \in 1..num_bars |->
                                      AbsBar(emotion_values[i], i - 1, max_value,
                                             svg_height, bar_width) ] ]

\* Diffs that skips the canonical keys the mapping lacks
DiffsPresentOnly(d) ==
    LET idx == SelectSeq([i \in 1..Len(emotion_keys_ordered) |-> i],
                         LAMBDA i : emotion_keys_ordered[i] \in DOMAIN d)
    IN  [ j \in 1..Len(idx) |->
            [ name  |-> labels_map[emotion_keys_ordered[idx[j]]],
              value |-> DictGet(d, emotion_keys_ordered[idx[j]])
                        - DictGet(d, avg_keys[idx[j]]) ] ]

\* lines 235-241: round(val - avg, 2) per canonical key, in hundredths
Diffs(d) ==
    [ i \in 1..Len(emotion_keys_ordered) |->
        [ name  |-> labels_map[emotion_keys_ordered[i]],
          value |-> DictGet(d, emotion_keys_ordered[i]) - DictGet(d, avg_keys[i]) ] ]

\* lines 247-249
DiffMaxAbs(diffs) ==
    LET m == SeqMax([i \in 1..Len(diffs) |-> RAbs(FromHundredths(diffs[i].value))])
    IN  IF RLt(m, FromInt(min_scale)) THEN FromInt(min_scale) ELSE m

\* line 254
Panel(max_abs) == RMul(RDiv(max_abs, FromInt(100)), FromInt(base_height))

\* line 255: int() of the double; panel is (max_abs / 100) * base_height
DiffSvgHeight(panel) ==
    LET exact == RInt(RAdd(RMul(panel, FromInt(2)), FromInt(padding * 2)))
        max_abs == RDiv(RMul(panel, FromInt(100)), FromInt(base_height))
        below == Hundredths(max_abs) \in DiffTruncatedBelow
    IN  IF below THEN exact - 1 ELSE exact

\* DiffBar that starts every bar at the baseline, whatever the sign
DiffBarAlwaysDown(item, i, max_abs, panel, baseline_y, bar_width) ==
    LET height == RMul(RDiv(RAbs(FromHundredths(item.value)), max_abs), panel)
    IN  [ name    |-> item.name,
          value   |-> item.value,
          x       |-> BarX(i, bar_width),
          y       |-> baseline_y,
          width   |-> bar_width,
          height  |-> height,
          text_y  |-> RAdd(RAdd(baseline_y, height), FromInt(15)),
          label_y |-> RAdd(RAdd(baseline_y, panel), FromInt(20)) ]

\* lines 293-318: the i-th bar (i counted from 0)
DiffBar(item, i, max_abs, panel, baseline_y, bar_width) ==
    LET x == BarX(i, bar_width)
        val == FromHundredths(item.value)
        height == RMul(RDiv(RAbs(val), max_abs), panel)
        y == IF item.value >= 0 THEN RSub(baseline_y, height) ELSE baseline_y
    IN  [ name    |-> item.name,
          value   |-> item.value,
          x       |-> x,
          y       |-> y,
          width   |-> bar_width,
          height  |-> height,
          text_y  |-> IF item.value >= 0
                        THEN RSub(y, FromInt(5))
                        ELSE RAdd(RAdd(y, height), FromInt(15)),
          label_y |-> RAdd(RAdd(baseline_y, panel), FromInt(20)) ]

\* lines 188-328
create_emotion_charts_html_2(d) ==
    LET diffs == Diffs(d)
    IN  IF diffs = <<>> THEN NoData
        ELSE LET max_abs    == DiffMaxAbs(diffs)
                 panel      == Panel(max_abs)
                 svg_height == DiffSvgHeight(panel)
                 num_bars   == Len(diffs)
                 bar_width  == BarWidth(num_bars)
                 baseline_y == RAdd(FromInt(padding), panel)
             IN  [ kind       |-> "diff",
                   svg_width  |-> svg_width,
                   svg_height |-> svg_height,
                   max_abs    |-> max_abs,
                   panel      |-> panel,
                   baseline_y |-> baseline_y,
                   bars       |-> [ i \in 1..num_bars |->
                                      DiffBar(diffs[i], i - 1, max_abs, panel,
                                              baseline_y, bar_width) ] ]

(***************************************************************************)
(* Chart renderers called on their own: inputs and the two calls           *)
(***************************************************************************)
EmotionKeySet == {emotion_keys_ordered[i] : i \in 1..7}
AvgKeySet     == {avg_keys[i] : i \in 1..7}
\* a key of current_row_data that is no emotion key
OtherKey == "llm_skoru"

\* 0, 2.5, 5.5, 40.0 and 100.0 in hundredths
ChartValues == {0, 250, 550, 3280, 4000, 10000}

\* mappings with any subset of the emotion keys, with no, all or the matching
\* average keys, with or without a foreign key, every value the same
PresenceInputs ==
    { [k \in E \cup A \cup X |-> v] :
        E \in SUBSET EmotionKeySet,
        A \in {{}, AvgKeySet},
        X \in {{}, {OtherKey}},
        v \in ChartValues }

\* complete mappings in which at most MaxVaried fields are not 0
ValueInputs ==
    UNION { { [k \in EmotionKeySet \cup AvgKeySet |->
                 IF k \in S THEN f[k] ELSE 0] : f \in [S -> ChartValues \ {0}] } :
            S \in SubsetsUpTo(EmotionKeySet \cup AvgKeySet, MaxVaried) }

ChartInputs == PresenceInputs \cup ValueInputs

RenderAbsolute ==
    /\ abs_chart = Pending
    /\ abs_chart' = create_emotion_charts_html(emotion_data)
    /\ UNCHANGED <<emotion_data, diff_chart>>
    /\ UNCHANGED pipeVars
    /\ UNCHANGED concVars

RenderDifferential ==
    /\ diff_chart = Pending
    /\ diff_chart' = create_emotion_charts_html_2(emotion_data)
    /\ UNCHANGED <<emotion_data, abs_chart>>
    /\ UNCHANGED pipeVars
    /\ UNCHANGED concVars

(***************************************************************************)
(* generate_report: inputs                                                 *)
(***************************************************************************)
\* line 702-718
required_columns ==
    { "kisi_adi", "mulakat_adi", "llm_skoru" } \cup EmotionKeySet \cup
    { "ekran_disi_sure_sn", "ekran_disi_sayisi", "soru", "cevap", "tip" }

\* the columns lines 731-756 read from the first row
used_columns ==
    required_columns \cup AvgKeySet \cup
    { "avg_ekran_disi_sure_sn", "avg_ekran_disi_sayisi", "avg_llm_skoru" }

TipValues == {0, 1, 2}

\* emotion and cohort-average values of the first row, in hundredths
EmotionSample(which) ==
    [ k \in EmotionKeySet \cup AvgKeySet |->
        IF which = 1
        THEN CASE k = "duygu_mutlu_%"      -> 4000
               [] k = "avg_duygu_mutlu_%"  -> 3000
               [] k = "duygu_kizgin_%"     -> 1000
               [] k = "avg_duygu_kizgin_%" -> 1250
               [] k = "duygu_uzgun_%"      -> 500
               [] OTHER                    -> 0
        ELSE 0 ]

Tables ==
    { [ kind    |-> "table",
        columns |-> used_columns \ M,
        nrows   |-> n,
        tip     |-> t,
        sample  |-> s,
        kisi_adi |-> "Ada",
        mulakat_adi |-> "M1" ] :
        M \in SubsetsUpTo(used_columns, MaxMissing),
        n \in 0..MaxRows,
        t \in TipValues,
        s \in {1, 2} }

NoTable ==
    [ kind |-> "none", columns |-> {}, nrows |-> 0, tip |-> 0, sample |-> 0,
      kisi_adi |-> "", mulakat_adi |-> "" ]

\* a zero-byte file, bytes that do not tokenise as CSV, or a table
Contents ==
    { [NoTable EXCEPT !.kind = "empty_file"], [NoTable EXCEPT !.kind = "malformed"] }
    \cup Tables

Uploads == { [csv_name |-> c, content |-> x] : c \in BOOLEAN, x \in Contents }

\* pieces of the generator's text: whitespace, other text, the literal
\* {{uygunluk_degerlendirmesi_bolumu}}, the three insertion-point elements,
\* "```" and "```html"
Pieces == { "ws", "txt", "tok", "chart", "logo", "wm", "fence", "fence_html" }
TextPieces == { "ws", "txt", "tok", "fence", "fence_html" }

Docs == UNION { [1..n -> Pieces] : n \in 0..MaxDocLen }

LogoStates == { "missing", "unreadable", "empty", "png" }

(***************************************************************************)
(* generate_report: failures                                               *)
(***************************************************************************)
NoResponse == [status |-> 0, detail |-> "none"]

HTTPException(status_code, detail) ==
    [type |-> "HTTPException", status |-> status_code, detail |-> detail]
Raised(type) == [type |-> type, status |-> 0, detail |-> type]

\* lines 837-844: what the handlers of the try block turn an exception
\* raised inside it into
Handler(exc) ==
    IF exc.type = "EmptyDataError"
    THEN [status |-> 400, detail |-> "csv_empty"]
    ELSE [status |-> 500, detail |-> "internal"]

\* an HTTPException that leaves the endpoint without passing a handler
Surfaced(exc) == [status |-> exc.status, detail |-> exc.detail]

(***************************************************************************)
(* generate_report: the document                                           *)
(***************************************************************************)
\* a node of the parsed tree
Node(type, id, text, src, children) ==
    [type |-> type, id |-> id, text |-> text, src |-> src, children |-> children]

TextNode(t) == Node("text", "", t, <<>>, <<>>)

suitability_token == <<"tok">>

RECURSIVE LStrip(_)
LStrip(t) == IF t # <<>> /\ Head(t) = "ws" THEN LStrip(Tail(t)) ELSE t
RECURSIVE RStrip(_)
RStrip(t) ==
    IF t # <<>> /\ t[Len(t)] = "ws" THEN RStrip(SubSeq(t, 1, Len(t) - 1)) ELSE t
\* str.strip()
Strip(t) == RStrip(LStrip(t))

\* str.removeprefix("```html")
RemovePrefixFenceHtml(t) ==
    IF t # <<>> /\ Head(t) = "fence_html" THEN Tail(t) ELSE t

\* str.removesuffix("```")
RemoveSuffixFence(t) ==
    IF t # <<>> /\ t[Len(t)] = "fence" THEN SubSeq(t, 1, Len(t) - 1) ELSE t

\* lines 768-770
RawHtmlContent(reply_text) ==
    RemoveSuffixFence(RemovePrefixFenceHtml(Strip(reply_text)))

\* the element a piece of markup parses to
ElementOf(piece) ==
    CASE piece = "chart" -> Node("elem", "bar-chart-placeholder", <<>>, <<>>, <<>>)
      [] piece = "logo"  -> Node("elem", "header_logo", <<>>, <<>>,
                                 << Node("img", "", <<>>, <<"{{logo_src}}">>, <<>>) >>)
      [] piece = "wm"    -> Node("elem", "watermark-placeholder", <<>>, <<>>, <<>>)

RECURSIVE ParseFrom(_, _)
\* line 772: consecutive character data becomes one string node
ParseFrom(t, acc) ==
    IF t = <<>>
    THEN IF acc = <<>> THEN <<>> ELSE << TextNode(acc) >>
    ELSE IF Head(t) \in TextPieces
         THEN ParseFrom(Tail(t), Append(acc, Head(t)))
         ELSE (IF acc = <<>> THEN <<>> ELSE << TextNode(acc) >>)
              \o << ElementOf(Head(t)) >> \o ParseFrom(Tail(t), <<>>)

BeautifulSoup(markup) == ParseFrom(markup, <<>>)

RECURSIVE FindIdFrom(_, _, _)
FindIdFrom(nodes, id, i) ==
    IF i > Len(nodes) THEN 0
    ELSE IF nodes[i].type = "elem" /\ nodes[i].id = id THEN i
         ELSE FindIdFrom(nodes, id, i + 1)
\* soup.find(id=...): position of the first element with the id, 0 for None
FindId(nodes, id) == FindIdFrom(nodes, id, 1)

RECURSIVE FindTextFrom(_, _, _)
FindTextFrom(nodes, s, i) ==
    IF i > Len(nodes) THEN 0
    ELSE IF nodes[i].type = "text" /\ nodes[i].text = s THEN i
         ELSE FindTextFrom(nodes, s, i + 1)
\* soup.find(text=s): position of the first string node equal to s, 0 for None
FindText(nodes, s) == FindTextFrom(nodes, s, 1)

\* the fragment a chart renderer's return value parses to
ChartFragment(chart) ==
    IF chart.kind = "nodata" THEN Node("p", "nodata", <<"txt">>, <<>>, <<>>)
    ELSE Node("svg", chart.kind, <<>>, <<>>, <<>>)

\* InsertCharts that puts the charts at the end of the document when the
\* insertion point is missing
InsertChartsAnywhere(nodes, row_data) ==
    LET bar_chart_placeholder == FindId(nodes, "bar-chart-placeholder")
        fragments == << ChartFragment(create_emotion_charts_html(row_data)),
                        ChartFragment(create_emotion_charts_html_2(row_data)) >>
    IN  IF bar_chart_placeholder # 0
        THEN [nodes EXCEPT ![bar_chart_placeholder].children = fragments]
        ELSE nodes \o fragments

\* lines 777-787
InsertCharts(nodes, row_data) ==
    LET bar_chart_placeholder == FindId(nodes, "bar-chart-placeholder")
    IN  IF bar_chart_placeholder # 0
        THEN [nodes EXCEPT ![bar_chart_placeholder].children =
                << ChartFragment(create_emotion_charts_html(row_data)),
                   ChartFragment(create_emotion_charts_html_2(row_data)) >>]
        ELSE nodes

\* lines 39-57: the Base64 text of the file, "" when it cannot be read
get_image_base64(file_state) ==
    CASE file_state = "missing"    -> <<>>
      [] file_state = "unreadable" -> <<>>
      [] file_state = "empty"      -> <<>>
      [] file_state = "png"        -> <<"iVBORw0KGgo">>

LogoSrc(logo_base64) == <<"data:image/png;base64,">> \o logo_base64

RECURSIVE FirstImgFrom(_, _)
FirstImgFrom(children, i) ==
    IF i > Len(children) THEN 0
    ELSE IF children[i].type = "img" THEN i ELSE FirstImgFrom(children, i + 1)

\* lines 794-796
SetHeaderLogo(nodes, logo_src) ==
    LET h == FindId(nodes, "header_logo")
        header_img == IF h = 0 THEN 0 ELSE FirstImgFrom(nodes[h].children, 1)
    IN  IF h # 0 /\ header_img # 0
        THEN [nodes EXCEPT ![h].children[header_img].src = logo_src]
        ELSE nodes

\* lines 799-804
AppendWatermark(nodes, logo_src) ==
    LET watermark_placeholder == FindId(nodes, "watermark-placeholder")
    IN  IF watermark_placeholder # 0
        THEN [nodes EXCEPT ![watermark_placeholder].children =
                Append(@, Node("img", "", <<>>, logo_src, <<>>))]
        ELSE nodes

\* InsertLogo without the test of line 790
InsertLogoUnguarded(nodes, logo_base64) ==
    AppendWatermark(SetHeaderLogo(nodes, LogoSrc(logo_base64)), LogoSrc(logo_base64))

\* lines 789-806
InsertLogo(nodes, logo_base64) ==
    IF logo_base64 # <<>>
    THEN AppendWatermark(SetHeaderLogo(nodes, LogoSrc(logo_base64)),
                         LogoSrc(logo_base64))
    ELSE nodes

\* the sequence without its i-th element
RemoveAt(s, i) == SubSeq(s, 1, i - 1) \o SubSeq(s, i + 1, Len(s))

\* lines 809-812
RemoveSuitability(nodes, tip) ==
    IF tip = 1
    THEN LET uygunluk_placeholder == FindText(nodes, suitability_token)
         IN  IF uygunluk_placeholder # 0
             THEN RemoveAt(nodes, uygunluk_placeholder)
             ELSE nodes
    ELSE nodes

RECURSIVE Prettify(_)
\* line 814: every string is written stripped on a line of its own, a string
\* of whitespace only is not written
Prettify(nodes) ==
    IF nodes = <<>> THEN <<>>
    ELSE LET n == Head(nodes)
         IN  IF n.type = "text"
             THEN (IF Strip(n.text) = <<>> THEN <<>>
                   ELSE << [n EXCEPT !.text = Strip(n.text)] >>)
                  \o Prettify(Tail(nodes))
             ELSE << [n EXCEPT !.children = Prettify(n.children)] >>
                  \o Prettify(Tail(nodes))

RECURSIVE HasOtherText(_)
\* text that did not come from the template: it may hold characters that
\* the utf-8 codec refuses (a lone surrogate)
HasOtherText(nodes) ==
    \E i \in 1..Len(nodes) :
        \/ /\ nodes[i].type = "text"
           /\ \E j \in 1..Len(nodes[i].text) : nodes[i].text[j] = "txt"
        \/ HasOtherText(nodes[i].children)

\* lines 772-812, the tree before it is serialised
AssembledSoup(reply_text, row_data, file_state) ==
    RemoveSuitability(
        InsertLogo(InsertCharts(BeautifulSoup(RawHtmlContent(reply_text)), row_data),
                   get_image_base64(file_state)),
        row_data["tip"])

(***************************************************************************)
(* generate_report: the steps                                              *)
(***************************************************************************)
NoRow == [k \in {} |-> 0]
NoPrompt == [branch |-> -1, template |-> <<>>]
NoReply == [ok |-> FALSE, text |-> <<>>]

\* lines 731-756: the fields of the first row, rounded or converted
CurrentRowData(table) ==
    [ k \in (used_columns \ {"soru", "cevap"}) \cup {"soru_cevap"} |->
        CASE k = "kisi_adi"               -> table.kisi_adi
          [] k = "mulakat_adi"            -> table.mulakat_adi
          [] k = "tip"                    -> table.tip
          [] k = "llm_skoru"              -> 8500
          [] k = "avg_llm_skoru"          -> 7000
          [] k = "ekran_disi_sure_sn"     -> 1250
          [] k = "avg_ekran_disi_sure_sn" -> 1000
          [] k = "ekran_disi_sayisi"      -> 3
          [] k = "avg_ekran_disi_sayisi"  -> 2
          [] k = "soru_cevap"             -> << [soru |-> "q", cevap |-> "a"] >>
          [] OTHER                        -> EmotionSample(table.sample)[k] ]

\* lines 352-598: where the template handed to the generator holds the
\* suitability token: in the body text, between a newline and indentation
TemplateTokenRegion == << "ws", "tok", "ws" >>

\* PromptDefined that accepts every flag
PromptAlwaysDefined(row_data) == row_data["tip"] \in Int

\* lines 346-666; tip outside {0, 1} leaves prompt_instructions unassigned
PromptDefined(row_data) == row_data["tip"] \in {0, 1}
generate_llm_prompt(row_data) ==
    [branch |-> row_data["tip"], template |-> TemplateTokenRegion]

Fail(resp) ==
    /\ response' = resp
    /\ pc' = "failed"

\* lines 692-696, before the try block
CheckFileType ==
    /\ pc = "start"
    /\ IF ~upload.csv_name
       THEN /\ Fail(Surfaced(HTTPException(400, "bad_file_type")))
       ELSE /\ pc' = "read"
            /\ UNCHANGED response
    /\ UNCHANGED <<upload, logo_file, gen_reply, pdf_result, df, row, prompt, soup,
                   final_html, gen_calls, pdf_calls, debug_written>>
    /\ UNCHANGED chartVars
    /\ UNCHANGED concVars

\* lines 699-700
ReadCsv ==
    /\ pc = "read"
    /\ CASE upload.content.kind = "empty_file" ->
              /\ Fail(Handler(Raised("EmptyDataError")))
              /\ UNCHANGED df
         [] upload.content.kind = "malformed" ->
              /\ Fail(Handler(Raised("ParserError")))
              /\ UNCHANGED df
         [] OTHER ->
              /\ df' = upload.content
              /\ pc' = "validate"
              /\ UNCHANGED response
    /\ UNCHANGED <<upload, logo_file, gen_reply, pdf_result, row, prompt, soup,
                   final_html, gen_calls, pdf_calls, debug_written>>
    /\ UNCHANGED chartVars
    /\ UNCHANGED concVars

\* lines 702-727
ValidateTable ==
    /\ pc = "validate"
    /\ IF ~(required_columns \subseteq df.columns)
       THEN Fail(Handler(HTTPException(400, "missing_columns")))
       ELSE IF df.nrows = 0
            THEN Fail(Handler(HTTPException(400, "no_rows")))
            ELSE /\ pc' = "build"
                 /\ UNCHANGED response
    /\ UNCHANGED <<upload, logo_file, gen_reply, pdf_result, df, row, prompt, soup,
                   final_html, gen_calls, pdf_calls, debug_written>>
    /\ UNCHANGED chartVars
    /\ UNCHANGED concVars

\* lines 729-756
BuildRowData ==
    /\ pc = "build"
    /\ IF ~(used_columns \subseteq df.columns)
       THEN /\ Fail(Handler(Raised("KeyError")))
            /\ UNCHANGED row
       ELSE /\ row' = CurrentRowData(df)
            /\ pc' = "prompt"
            /\ UNCHANGED response
    /\ UNCHANGED <<upload, logo_file, gen_reply, pdf_result, df, prompt, soup,
                   final_html, gen_calls, pdf_calls, debug_written>>
    /\ UNCHANGED chartVars
    /\ UNCHANGED concVars

\* lines 760-762
BuildPrompt ==
    /\ pc = "prompt"
    /\ IF ~PromptDefined(row)
       THEN /\ Fail(Handler(Raised("UnboundLocalError")))
            /\ UNCHANGED prompt
       ELSE /\ prompt' = generate_llm_prompt(row)
            /\ pc' = "generate"
            /\ UNCHANGED response
    /\ UNCHANGED <<upload, logo_file, gen_reply, pdf_result, df, row, soup,
                   final_html, gen_calls, pdf_calls, debug_written>>
    /\ UNCHANGED chartVars
    /\ UNCHANGED concVars

\* CallGeneration that calls the collaborator again after a failed call
CallGenerationRetry ==
    /\ pc = "generate"
    /\ gen_calls < 3
    /\ gen_calls' = gen_calls + 1
    /\ \/ /\ gen_reply' = NoReply
          /\ UNCHANGED <<pc, response>>
       \/ \E text \in Docs :
            /\ gen_reply' = [ok |-> TRUE, text |-> text]
            /\ pc' = "assemble"
            /\ UNCHANGED response
    /\ UNCHANGED <<upload, logo_file, pdf_result, df, row, prompt, soup,
                   final_html, pdf_calls, debug_written>>
    /\ UNCHANGED chartVars
    /\ UNCHANGED concVars

\* lines 764-766: the call fails, or answers some text
CallGeneration ==
    /\ pc = "generate"
    /\ gen_calls' = gen_calls + 1
    /\ \/ /\ gen_reply' = NoReply
          /\ Fail(Handler(Raised("GenerationError")))
       \/ \E text \in Docs :
            /\ gen_reply' = [ok |-> TRUE, text |-> text]
            /\ pc' = "assemble"
            /\ UNCHANGED response
    /\ UNCHANGED <<upload, logo_file, pdf_result, df, row, prompt, soup,
                   final_html, pdf_calls, debug_written>>
    /\ UNCHANGED chartVars
    /\ UNCHANGED concVars

\* lines 768-814, with logo.png in whatever state it is found
Assemble ==
    /\ pc = "assemble"
    /\ \E file_state \in LogoStates :
         /\ logo_file' = file_state
         /\ soup' = AssembledSoup(gen_reply.text, row, file_state)
    /\ final_html' = Prettify(soup')
    /\ pc' = "debug"
    /\ UNCHANGED <<upload, gen_reply, pdf_result, df, row, prompt, response,
                   gen_calls, pdf_calls, debug_written>>
    /\ UNCHANGED chartVars
    /\ UNCHANGED concVars

\* lines 816-822: an IOError is printed and the invocation goes on; any
\* other exception of the write (text the utf-8 codec cannot encode) is
\* answered at line 839
WriteDebugFile ==
    /\ pc = "debug"
    /\ \/ /\ \E written \in BOOLEAN : debug_written' = written
          /\ pc' = "render"
          /\ UNCHANGED response
       \/ /\ HasOtherText(final_html)
          /\ debug_written' = FALSE
          /\ Fail(Handler(Raised("UnicodeEncodeError")))
    /\ UNCHANGED <<upload, logo_file, gen_reply, pdf_result, df, row, prompt, soup,
                   final_html, gen_calls, pdf_calls>>
    /\ UNCHANGED chartVars
    /\ UNCHANGED concVars

\* lines 824-835 and 669-682
RenderPdf ==
    /\ pc = "render"
    /\ pdf_calls' = pdf_calls + 1
    /\ \/ /\ pdf_result' = "ok"
          /\ response' = [status |-> 200, detail |-> "pdf"]
          /\ pc' = "done"
       \/ /\ pdf_result' = "error"
          /\ Fail(Handler(Raised("ValueError")))
    /\ UNCHANGED <<upload, logo_file, gen_reply, df, row, prompt, soup,
                   final_html, gen_calls, debug_written>>
    /\ UNCHANGED chartVars
    /\ UNCHANGED concVars

(***************************************************************************)
(* Specifications                                                          *)
(***************************************************************************)
PipeIdle ==
    /\ logo_file = "unread"
    /\ gen_reply = NoReply
    /\ pdf_result = "none"
    /\ df = NoTable
    /\ row = NoRow
    /\ prompt = NoPrompt
    /\ soup = <<>>
    /\ final_html = <<>>
    /\ response = NoResponse
    /\ gen_calls = 0
    /\ pdf_calls = 0
    /\ debug_written = FALSE

\* no overlapping invocations
ConcIdle ==
    /\ inv = <<>>
    /\ files = {}
    /\ running = 0

\* one invocation of generate_report on some upload
Init ==
    /\ pc = "start"
    /\ upload \in Uploads
    /\ PipeIdle
    /\ ConcIdle
    /\ emotion_data = NoRow
    /\ abs_chart = Pending
    /\ diff_chart = Pending

Next ==
    \/ CheckFileType
    \/ ReadCsv
    \/ ValidateTable
    \/ BuildRowData
    \/ BuildPrompt
    \/ CallGeneration
    \/ Assemble
    \/ WriteDebugFile
    \/ RenderPdf

Spec == Init /\ [][Next]_vars

\* the two renderers called on some mapping
InitChart ==
    /\ emotion_data \in ChartInputs
    /\ abs_chart = Pending
    /\ diff_chart = Pending
    /\ pc = "idle"
    /\ upload = [csv_name |-> FALSE, content |-> NoTable]
    /\ PipeIdle
    /\ ConcIdle

NextChart ==
    \/ RenderAbsolute
    \/ RenderDifferential

SpecChart == InitChart /\ [][NextChart]_vars

(***************************************************************************)
(* Overlapping invocations of generate_report in one server process.  The  *)
(* endpoint is a coroutine whose only suspension point is the read of the  *)
(* upload (line 699); what follows runs on the event loop without yielding.*)
(***************************************************************************)
Invocations == 1..NumInvocations

SubjectNames == { "Ada", "Can" }
SessionNames == { "M1" }

\* uploads of overlapping invocations: complete one-row tables
ConcUploads ==
    { [ csv_name |-> c,
        content  |-> [ kind |-> "table", columns |-> used_columns, nrows |-> 1,
                       tip |-> t, sample |-> 1, kisi_adi |-> k,
                       mulakat_adi |-> m ] ] :
        c \in BOOLEAN, t \in TipValues, k \in SubjectNames, m \in SessionNames }

\* what the generator answers to overlapping invocations
ConcDocs ==
    { << "logo", "chart" >>, << "fence_html", "chart", "fence" >>, << "txt" >> }

NoDocument == [source |-> <<>>, produced |-> FALSE]

NewInvocation(u) ==
    [ pc |-> "start", upload |-> u, row |-> NoRow, reply |-> NoReply,
      final_html |-> <<>>, response |-> NoResponse, returned |-> NoDocument ]

\* line 816: the debug file's name
html_debug_filename(row_data) ==
    << row_data["kisi_adi"], row_data["mulakat_adi"], "Rapor_Debug.html" >>

\* lines 818-819: open(name, "w") creates the file of that name or empties
\* it, f.write then puts content in it; complete tells whether the whole
\* document got written
WriteFile(fs, name, content, writer, complete) ==
    { f \in fs : f.name # name }
    \cup { [ name |-> name, content |-> content, writer |-> writer,
             complete |-> complete ] }

\* what a write that fails part-way leaves in the file
Prefixes(content) ==
    { SubSeq(content, 1, k) : k \in 0..(Len(content) - 1) }

ConcFail(i, resp) ==
    inv' = [inv EXCEPT ![i].pc = "failed", ![i].response = resp]

\* lines 692-699: the file-type check, then the coroutine suspends
ConcInvoke(i) ==
    /\ inv[i].pc = "start"
    /\ running = 0
    /\ IF inv[i].upload.csv_name
       THEN inv' = [inv EXCEPT ![i].pc = "awaiting"]
       ELSE ConcFail(i, Surfaced(HTTPException(400, "file_type")))
    /\ UNCHANGED <<files, running>>
    /\ UNCHANGED pipeVars
    /\ UNCHANGED chartVars

\* lines 700-762: resumed by the event loop; table, record and prompt
ConcResume(i) ==
    /\ inv[i].pc = "awaiting"
    /\ running = 0
    /\ LET r == CurrentRowData(inv[i].upload.content)
       IN  IF PromptDefined(r)
           THEN /\ inv' = [inv EXCEPT ![i].pc = "generate", ![i].row = r]
                /\ running' = i
           ELSE /\ inv' = [inv EXCEPT ![i].pc = "failed", ![i].row = r,
                                      ![i].response =
                                          Handler(Raised("UnboundLocalError"))]
                /\ running' = 0
    /\ UNCHANGED files
    /\ UNCHANGED pipeVars
    /\ UNCHANGED chartVars

\* lines 764-766
ConcGenerate(i) ==
    /\ inv[i].pc = "generate"
    /\ running = i
    /\ \/ /\ \E d \in ConcDocs :
                inv' = [inv EXCEPT ![i].pc = "assemble",
                                   ![i].reply = [ok |-> TRUE, text |-> d]]
          /\ UNCHANGED running
       \/ /\ ConcFail(i, Handler(Raised("GenerationError")))
          /\ running' = 0
    /\ UNCHANGED files
    /\ UNCHANGED pipeVars
    /\ UNCHANGED chartVars

\* lines 768-814
ConcAssemble(i) ==
    /\ inv[i].pc = "assemble"
    /\ running = i
    /\ \E state \in LogoStates :
          inv' = [inv EXCEPT ![i].pc = "debug",
                             ![i].final_html =
                                 Prettify(AssembledSoup(inv[i].reply.text,
                                                        inv[i].row, state))]
    /\ UNCHANGED <<files, running>>
    /\ UNCHANGED pipeVars
    /\ UNCHANGED chartVars

\* lines 816-822: the file is written under a name made of the record's
\* subject and session names only.  An IOError is printed: raised by open,
\* it leaves the files as they were; raised by write, it leaves the file
\* emptied by open, holding at most a part of the document.  Any other
\* exception of the write leaves the file empty and is answered at line 839
ConcWriteDebugFile(i) ==
    /\ inv[i].pc = "debug"
    /\ running = i
    /\ LET name == html_debug_filename(inv[i].row)
       IN  \/ /\ \/ files' = WriteFile(files, name, inv[i].final_html, i, TRUE)
                 \/ \E part \in Prefixes(inv[i].final_html) :
                       files' = WriteFile(files, name, part, i, FALSE)
                 \/ UNCHANGED files
              /\ inv' = [inv EXCEPT ![i].pc = "render"]
              /\ UNCHANGED running
           \/ /\ HasOtherText(inv[i].final_html)
              /\ files' = WriteFile(files, name, <<>>, i, FALSE)
              /\ ConcFail(i, Handler(Raised("UnicodeEncodeError")))
              /\ running' = 0
    /\ UNCHANGED pipeVars
    /\ UNCHANGED chartVars

\* lines 824-835: the document is rendered from final_html, in memory
ConcRenderPdf(i) ==
    /\ inv[i].pc = "render"
    /\ running = i
    /\ \/ inv' = [inv EXCEPT ![i].pc = "done",
                             ![i].response = [status |-> 200, detail |-> "pdf"],
                             ![i].returned = [source |-> inv[i].final_html,
                                              produced |-> TRUE]]
       \/ ConcFail(i, Handler(Raised("ValueError")))
    /\ running' = 0
    /\ UNCHANGED files
    /\ UNCHANGED pipeVars
    /\ UNCHANGED chartVars

InitConc ==
    /\ inv \in [Invocations -> { NewInvocation(u) : u \in ConcUploads }]
    /\ files = {}
    /\ running = 0
    /\ pc = "idle"
    /\ upload = [csv_name |-> FALSE, content |-> NoTable]
    /\ PipeIdle
    /\ emotion_data = NoRow
    /\ abs_chart = Pending
    /\ diff_chart = Pending

NextConc ==
    \E i \in Invocations :
        \/ ConcInvoke(i)
        \/ ConcResume(i)
        \/ ConcGenerate(i)
        \/ ConcAssemble(i)
        \/ ConcWriteDebugFile(i)
        \/ ConcRenderPdf(i)

SpecConc == InitConc /\ [][NextConc]_vars

(***************************************************************************)
(* Properties of the absolute chart (specification SpecChart)              *)
(***************************************************************************)
PresentKeys == DOMAIN emotion_data \cap EmotionKeySet
\* position of a label in the canonical order
CanonicalIndex(name) ==
    CHOOSE i \in 1..7 : labels_map[emotion_keys_ordered[i]] = name
PlotHeight(chart) == chart.svg_height - 2 * padding
AllZeroOrMissing == \A k \in PresentKeys : emotion_data[k] = 0

\* C7 as stated: whenever every canonical key is absent or 0, the absolute
\* renderer returns the "no data" placeholder.
C7_ZeroOrMissingGivesNoData ==
    (abs_chart # Pending /\ AllZeroOrMissing) => abs_chart = NoData

\* C7 amended: the absolute renderer returns the "no data" placeholder exactly
\* when no canonical key is present; a mapping whose present canonical keys
\* are all 0 is rendered as a chart with one bar of height 0 per present key.
C7_NoDataIffNoKeyPresent ==
    abs_chart # Pending =>
        /\ (abs_chart = NoData <=> PresentKeys = {})
        /\ (PresentKeys # {} /\ AllZeroOrMissing) =>
              /\ abs_chart.kind = "abs"
              /\ Len(abs_chart.bars) = Cardinality(PresentKeys)
              /\ \A i \in 1..Len(abs_chart.bars) :
                    abs_chart.bars[i].height = FromInt(0)

C7_Witness ==
    /\ abs_chart = NoData
    /\ PresentKeys = {}
    /\ DOMAIN emotion_data # {}

\* C8: the scale is max(5, largest present value): when all values are
\* below 5 every bar's height is value/5 of the plot height, otherwise the
\* scale is the largest value and its bar fills the plot height exactly.
C8_EffectiveMax ==
    abs_chart.kind = "abs" =>
        LET bars == abs_chart.bars
            plot == FromInt(PlotHeight(abs_chart))
        IN  IF \A k \in PresentKeys : emotion_data[k] < 500
            THEN /\ abs_chart.max_value = FromInt(5)
                 /\ \A i \in 1..Len(bars) :
                       bars[i].height =
                          RMul(Rat(bars[i].value, 500), plot)
            ELSE /\ \E k \in PresentKeys :
                       abs_chart.max_value = Rat(emotion_data[k], 100)
                 /\ \A k \in PresentKeys :
                       RLe(Rat(emotion_data[k], 100), abs_chart.max_value)
                 /\ \A i \in 1..Len(bars) :
                       Rat(bars[i].value, 100) = abs_chart.max_value
                          => bars[i].height = plot

C8_Witness ==
    /\ abs_chart.kind = "abs"
    /\ abs_chart.max_value = FromInt(5)
    /\ PlotHeight(abs_chart) = 12
    /\ \E i \in 1..Len(abs_chart.bars) :
          /\ abs_chart.bars[i].value = 250
          /\ abs_chart.bars[i].height = FromInt(6)

\* C9: with a canonical key present the absolute chart has exactly one bar
\* per canonical key present, keys outside the canonical set give no bar, and
\* the bars stand left to right in canonical order.
C9_OneBarPerPresentKey ==
    (abs_chart # Pending /\ PresentKeys # {}) =>
        /\ abs_chart.kind = "abs"
        /\ Len(abs_chart.bars) = Cardinality(PresentKeys)
        /\ { abs_chart.bars[i].name : i \in 1..Len(abs_chart.bars) }
              = { labels_map[k] : k \in PresentKeys }
        /\ \A i \in 1..(Len(abs_chart.bars) - 1) :
              /\ CanonicalIndex(abs_chart.bars[i].name)
                    < CanonicalIndex(abs_chart.bars[i + 1].name)
              /\ RLt(abs_chart.bars[i].x, abs_chart.bars[i + 1].x)

C9_Witness ==
    /\ abs_chart.kind = "abs"
    /\ OtherKey \in DOMAIN emotion_data
    /\ PresentKeys = {"duygu_mutlu_%", "duygu_korku_%", "duygu_dogal_%"}
    /\ Len(abs_chart.bars) = 3
    /\ abs_chart.bars[2].name = "Korku"

(***************************************************************************)
(* Properties of the differential chart (specification SpecChart)         *)
(***************************************************************************)
\* value - average of the i-th canonical key, in hundredths
DiffOf(i) ==
    DictGet(emotion_data, emotion_keys_ordered[i]) - DictGet(emotion_data, avg_keys[i])
MaxAbsDiff ==
    CHOOSE m \in {Abs(DiffOf(i)) : i \in 1..7} :
        \A i \in 1..7 : Abs(DiffOf(i)) <= m

\* C10: every bar of the differential chart has height |diff|/maxAbs * panel
\* with maxAbs = max(5, max |diff|), goes up from the baseline for diff >= 0
\* and down from it for diff < 0, and stays within [padding, padding +
\* 2*panel]; when value = average for every key all heights are 0 and maxAbs
\* is 5.
C10_DiffBarGeometry ==
    diff_chart.kind = "diff" =>
        LET c == diff_chart
            top == FromInt(padding)
            bottom == RAdd(FromInt(padding), RMul(FromInt(2), c.panel))
        IN  /\ Len(c.bars) = 7
            /\ c.max_abs = IF MaxAbsDiff < 500 THEN FromInt(5) ELSE Rat(MaxAbsDiff, 100)
            /\ c.panel = RMul(c.max_abs, Rat(base_height, 100))
            /\ c.baseline_y = RAdd(top, c.panel)
            /\ \A i \in 1..7 :
                  LET b == c.bars[i]
                  IN  /\ b.value = DiffOf(i)
                      /\ RMul(b.height, c.max_abs)
                            = RMul(Rat(Abs(DiffOf(i)), 100), c.panel)
                      /\ IF DiffOf(i) >= 0
                         THEN RAdd(b.y, b.height) = c.baseline_y
                         ELSE b.y = c.baseline_y
                      /\ RLe(top, b.y)
                      /\ RLe(RAdd(b.y, b.height), bottom)
            /\ (\A i \in 1..7 : DiffOf(i) = 0) =>
                  /\ c.max_abs = FromInt(5)
                  /\ \A i \in 1..7 : c.bars[i].height = FromInt(0)

C10_Witness ==
    /\ diff_chart.kind = "diff"
    /\ \E i, j \in 1..7 :
          /\ diff_chart.bars[i].value = 4000
          /\ diff_chart.bars[i].y = FromInt(padding)
          /\ diff_chart.bars[j].value = -250
          /\ diff_chart.bars[j].y = diff_chart.baseline_y
          /\ diff_chart.bars[j].height = Rat(25, 4)

(***************************************************************************)
(* Properties of generate_report (specification Spec)                     *)
(***************************************************************************)
Ended == pc \in {"done", "failed"}
Assembled ==
    \/ pc \in {"debug", "render", "done"}
    \/ (pc = "failed" /\ logo_file \in LogoStates)
IsTable == upload.content.kind = "table"

validation_status == 400
input_format_status == 400
internal_error_status == 500

\* C1 as stated: a table that lacks a required column, or has no data row,
\* fails with the validation status, never with the internal-error status.
C1_ValidationFailureIsClientError ==
    ( /\ Ended
      /\ upload.csv_name
      /\ IsTable
      /\ (~(required_columns \subseteq upload.content.columns)
            \/ upload.content.nrows = 0) )
    => /\ response.status = validation_status
       /\ response.status # internal_error_status

\* C2 as stated: a table whose first row lacks a cohort-average field fails
\* with the validation status before the generation collaborator is called.
C2_MissingAverageIsValidationError ==
    ( /\ Ended
      /\ upload.csv_name
      /\ IsTable
      /\ upload.content.nrows > 0
      /\ ~(used_columns \ required_columns \subseteq upload.content.columns) )
    => /\ response.status = validation_status
       /\ gen_calls = 0

\* C3 as stated: a wrong file type and unparsable content of the right type
\* both fail with the input-format status, which is not the internal-error
\* status, and no collaborator is called.
C3_FormatFailuresShareClassification ==
    ( /\ Ended
      /\ (~upload.csv_name \/ upload.content.kind \in {"malformed", "empty_file"}) )
    => /\ response.status = input_format_status
       /\ response.status # internal_error_status
       /\ gen_calls = 0
       /\ pdf_calls = 0

RECURSIVE HasToken(_)
\* whether some string of the nodes holds the suitability token
HasToken(nodes) ==
    \E i \in 1..Len(nodes) :
        \/ /\ nodes[i].type = "text"
           /\ \E j \in 1..Len(nodes[i].text) : nodes[i].text[j] = "tok"
        \/ HasToken(nodes[i].children)

\* the strings of the nodes that hold the token, in document order
TokenRegions(nodes) ==
    SelectSeq(nodes, LAMBDA n : n.type = "text" /\ HasToken(<<n>>))

ParsedReply == BeautifulSoup(RawHtmlContent(gen_reply.text))

\* C4 as stated: for a generated document that holds the suitability token,
\* with flag 1 the assembled output no longer holds it, with flag 0 the
\* strings holding it are as the generator returned them.
C4_TokenRemovedForFlagOne ==
    (Assembled /\ HasToken(ParsedReply)) =>
        /\ row["tip"] = 1 => ~HasToken(final_html)
        /\ row["tip"] = 0 => TokenRegions(soup) = TokenRegions(ParsedReply)

RECURSIVE HasChart(_)
\* whether a chart renderer's output is among the nodes
HasChart(nodes) ==
    \E i \in 1..Len(nodes) :
        \/ nodes[i].type \in {"svg", "p"}
        \/ HasChart(nodes[i].children)

ExactTokenCount(nodes) ==
    Len(SelectSeq(nodes, LAMBDA n : n.type = "text" /\ n.text = suitability_token))

DataUri == <<"data:image/png;base64,", "iVBORw0KGgo">>

\* the src of the image of the first header_logo element, <<>> without one
HeaderLogoSrc(nodes) ==
    LET h == FindId(nodes, "header_logo")
    IN  IF h = 0 THEN <<>> ELSE nodes[h].children[1].src

\* the children of the first watermark element, <<>> without one
WatermarkChildren(nodes) ==
    LET w == FindId(nodes, "watermark-placeholder")
    IN  IF w = 0 THEN <<>> ELSE nodes[w].children

\* C5: for a generated document without the chart insertion point, assembly
\* completes, no chart is in the tree or in the output, and the logo,
\* watermark and suitability steps are still carried out.
C5_NoChartWithoutInsertionPoint ==
    (Assembled /\ FindId(ParsedReply, "bar-chart-placeholder") = 0) =>
        /\ ~HasChart(soup)
        /\ ~HasChart(final_html)
        /\ (logo_file = "png" /\ FindId(ParsedReply, "header_logo") # 0)
              => HeaderLogoSrc(soup) = DataUri
        /\ (logo_file = "png" /\ FindId(ParsedReply, "watermark-placeholder") # 0)
              => Len(WatermarkChildren(soup)) = 1
        /\ (row["tip"] = 1 /\ ExactTokenCount(ParsedReply) > 0)
              => ExactTokenCount(soup) = ExactTokenCount(ParsedReply) - 1
        /\ Len(soup) = Len(ParsedReply)
                         - (IF row["tip"] = 1 /\ ExactTokenCount(ParsedReply) > 0
                            THEN 1 ELSE 0)

C5_Witness ==
    /\ pc = "done"
    /\ gen_reply.text = << "logo", "tok", "wm" >>
    /\ row["tip"] = 1
    /\ logo_file = "png"
    /\ ~HasChart(final_html)
    /\ ~HasToken(final_html)
    /\ HeaderLogoSrc(final_html) = DataUri

\* the first half of C6: when the logo file cannot be read, the header logo
\* source and the watermark insertion point stay as parsed, the invocation
\* goes on to the rendering call, and a document is returned when that call
\* succeeds.
C6_UnreadableLogoStillRenders ==
    (Assembled /\ logo_file \in {"missing", "unreadable"}) =>
        /\ get_image_base64(logo_file) = <<>>
        /\ HeaderLogoSrc(soup) = HeaderLogoSrc(ParsedReply)
        /\ WatermarkChildren(soup) = WatermarkChildren(ParsedReply)
        /\ Ended => pdf_calls = 1
        /\ pdf_result = "ok" => response.status = 200

\* the second half of C6: whenever the logo file can be read, the header
\* logo source is the data URI and one image with that source is in the
\* watermark.
C6_ReadableLogoIsInserted ==
    ( /\ Assembled
      /\ logo_file \in {"empty", "png"}
      /\ FindId(ParsedReply, "header_logo") # 0
      /\ FindId(ParsedReply, "watermark-placeholder") # 0 )
    => /\ HeaderLogoSrc(soup) # <<"{{logo_src}}">>
       /\ Len(WatermarkChildren(soup)) = 1
       /\ WatermarkChildren(soup)[1].src = HeaderLogoSrc(soup)

\* C6 as stated: an unreadable logo leaves both insertion points unmodified
\* and the invocation still proceeds to rendering and returns a document; a
\* readable logo is set as the header logo source and appended once, with the
\* same source, to the watermark insertion point.
C6_LogoClaim ==
    /\ C6_UnreadableLogoStillRenders
    /\ C6_ReadableLogoIsInserted

\* what lines 789-806 do: when get_image_base64 returns "" (file missing, read
\* error, or a file of zero bytes) the header logo source and the watermark
\* insertion point are as parsed; when it returns a non-empty string the
\* first header logo image, if any, gets the data URI and exactly one image
\* with that source is appended to the first watermark insertion point, if
\* any.
C6_LogoBestEffort ==
    Assembled =>
        IF logo_file \in {"missing", "unreadable", "empty"}
        THEN /\ HeaderLogoSrc(soup) = HeaderLogoSrc(ParsedReply)
             /\ WatermarkChildren(soup) = <<>>
        ELSE /\ logo_file = "png"
             /\ FindId(ParsedReply, "header_logo") # 0
                   => HeaderLogoSrc(soup) = DataUri
             /\ FindId(ParsedReply, "watermark-placeholder") # 0
                   => /\ Len(WatermarkChildren(soup)) = 1
                      /\ WatermarkChildren(soup)[1].type = "img"
                      /\ WatermarkChildren(soup)[1].src = DataUri

\* a document returned although the logo file is missing
C6_Witness ==
    /\ pc = "done"
    /\ response.status = 200
    /\ logo_file = "missing"
    /\ FindId(soup, "header_logo") # 0
    /\ FindId(soup, "watermark-placeholder") # 0
    /\ HeaderLogoSrc(soup) = <<"{{logo_src}}">>
    /\ WatermarkChildren(soup) = <<>>
(***************************************************************************)
(* Order of the steps of generate_report (specification Spec)              *)
(***************************************************************************)
\* position of a control point in the text of generate_report
StepRank(p) ==
    CASE p = "start"    -> 1
      [] p = "read"     -> 2
      [] p = "validate" -> 3
      [] p = "build"    -> 4
      [] p = "prompt"   -> 5
      [] p = "generate" -> 6
      [] p = "assemble" -> 7
      [] p = "debug"    -> 8
      [] p = "render"   -> 9
      [] OTHER          -> 10

ValidationPassed ==
    /\ upload.csv_name
    /\ IsTable
    /\ df = upload.content
    /\ required_columns \subseteq df.columns
    /\ df.nrows > 0
    /\ row = CurrentRowData(df)
    /\ prompt = generate_llm_prompt(row)

AssemblyFinished ==
    /\ gen_calls = 1
    /\ gen_reply.ok
    /\ logo_file \in LogoStates
    /\ soup = AssembledSoup(gen_reply.text, row, logo_file)
    /\ final_html = Prettify(soup)

C11_CallsInOrder ==
    /\ gen_calls \in {0, 1}
    /\ pdf_calls \in {0, 1}
    /\ gen_calls = 1 <=> \/ pc \in {"assemble", "debug", "render", "done"}
                         \/ (pc = "failed" /\ prompt # NoPrompt)
    /\ gen_calls = 1 => ValidationPassed
    /\ pdf_calls = 1 => AssemblyFinished
    /\ pdf_calls = 1 <=> pdf_result # "none"
    /\ response.status = 200 <=> (pc = "done" /\ pdf_result = "ok")
    /\ pc = "failed" <=> response.status \in {400, 500}

C11_StepForward ==
    /\ StepRank(pc') > StepRank(pc)
    /\ StepRank(pc') < 10 => StepRank(pc') = StepRank(pc) + 1
    /\ gen_calls' # gen_calls => (pc = "generate" /\ gen_calls' = gen_calls + 1)
    /\ pdf_calls' # pdf_calls => (pc = "render" /\ pdf_calls' = pdf_calls + 1)

\* C11: the steps of one invocation occur in the order of the code: the
\* generation collaborator is called at most once and only after validation
\* passed, the rendering collaborator at most once and only after assembly
\* finished, no call follows a failure, and bytes are returned only when the
\* rendering call succeeded.
C11_PipelineOrder == [](C11_CallsInOrder) /\ [][C11_StepForward]_vars

C11_Witness ==
    /\ pc = "done"
    /\ response.status = 200
    /\ gen_calls = 1
    /\ pdf_calls = 1
    /\ pdf_result = "ok"
(***************************************************************************)
(* Code fences around the generated document (specification Spec)          *)
(***************************************************************************)
IsFence(piece) == piece \in {"fence", "fence_html"}
HasFence(t) == \E i \in 1..Len(t) : IsFence(t[i])
Replied == gen_calls = 1 /\ gen_reply.ok

\* the reply without surrounding whitespace, an opening fence ("```" or
\* "```html") and a closing fence ("```")
Unwrapped(t) ==
    LET s == Strip(t)
        a == IF s # <<>> /\ IsFence(Head(s)) THEN Tail(s) ELSE s
    IN  IF a # <<>> /\ a[Len(a)] = "fence" THEN SubSeq(a, 1, Len(a) - 1) ELSE a

\* a document, itself free of fence markers, wrapped in an opening and/or a
\* closing fence
IsWrappedDocument(t) ==
    /\ HasFence(Strip(t))
    /\ ~HasFence(Unwrapped(t))

\* C12 as stated: of a document wrapped in code fences, with or without a
\* language tag, the text handed to the parser holds no fence marker; a
\* reply without fences is handed over with only its surrounding whitespace
\* removed.
C12_FencesStripped ==
    Replied =>
        /\ IsWrappedDocument(gen_reply.text) => ~HasFence(RawHtmlContent(gen_reply.text))
        /\ ~HasFence(gen_reply.text)
              => RawHtmlContent(gen_reply.text) = Strip(gen_reply.text)
(***************************************************************************)
(* Overlapping invocations (specification SpecConc)                        *)
(***************************************************************************)
\* the document an invocation returns is rendered from its own record, its
\* own generator reply and the logo file
C13_ReturnedFromOwn ==
    \A i \in Invocations :
        inv[i].returned.produced =>
            \E state \in LogoStates :
                inv[i].returned.source =
                    Prettify(AssembledSoup(inv[i].reply.text,
                                           CurrentRowData(inv[i].upload.content),
                                           state))

\* no step replaces a file that another invocation wrote
C13_NoForeignOverwrite ==
    \A f \in files : \A g \in files' :
        f.name = g.name => g.writer = f.writer

\* C13 as stated: overlapping invocations share no mutable resource: under
\* every interleaving, also for two records with the same subject and
\* session names, no step of one invocation overwrites what another wrote,
\* and the returned document depends on the invocation's own inputs only.
C13_InvocationsIndependent ==
    [](C13_ReturnedFromOwn) /\ [][C13_NoForeignOverwrite]_vars
(***************************************************************************)
(* The differential canvas (specification SpecChart)                       *)
(***************************************************************************)
\* C14 as stated: the differential canvas is symmetric about the baseline:
\* its height is 2*panel + 2*padding and the baseline y, padding + panel, is
\* exactly half of that height, also when maxAbs is not a whole number.
C14_CanvasSymmetric ==
    diff_chart.kind = "diff" =>
        LET c == diff_chart
        IN  /\ c.panel = RMul(RDiv(c.max_abs, FromInt(100)), FromInt(250))
            /\ FromInt(c.svg_height) =
                   RAdd(RMul(FromInt(2), c.panel), FromInt(2 * padding))
            /\ c.baseline_y = RAdd(FromInt(padding), c.panel)
            /\ RMul(FromInt(2), c.baseline_y) = FromInt(c.svg_height)

\* C17: the differential renderer never returns the "no data" placeholder:
\* for every mapping, the empty one and those lacking emotion or average
\* keys included, it draws seven bars in canonical order, a missing value or
\* average counting as 0, with a bar width above 0.
C17_AlwaysSevenBars ==
    diff_chart # Pending =>
        /\ diff_chart.kind = "diff"
        /\ Len(diff_chart.bars) = 7
        /\ \A i \in 1..7 :
              LET b == diff_chart.bars[i]
                  k == emotion_keys_ordered[i]
                  val == IF k \in DOMAIN emotion_data THEN emotion_data[k] ELSE 0
                  avg == IF avg_keys[i] \in DOMAIN emotion_data
                         THEN emotion_data[avg_keys[i]] ELSE 0
              IN  /\ b.name = labels_map[k]
                  /\ b.value = val - avg
                  /\ RLt(FromInt(0), b.width)

\* the empty mapping, and a mapping with emotion keys but no averages, drawn
C17_Witness ==
    /\ diff_chart.kind = "diff"
    /\ Len(diff_chart.bars) = 7
    /\ DOMAIN emotion_data = {}

(***************************************************************************)
(* Bars of the absolute chart stay inside the canvas (SpecChart)           *)
(***************************************************************************)
ValuesInRange == \A k \in PresentKeys : emotion_data[k] \in 0..10000

\* C16: when the present values lie in [0, 100], every bar of the absolute
\* chart has its top edge at or below the padding line (y >= 40) and its
\* bottom edge on the axis (canvas height - padding), its value label sits
\* 5 above the bar, and the label is never moved inside the bar.
C16_BarsInsideCanvas ==
    (abs_chart.kind = "abs" /\ ValuesInRange) =>
        \A i \in 1..Len(abs_chart.bars) :
            LET b == abs_chart.bars[i]
            IN  /\ RLe(FromInt(padding), b.y)
                /\ RAdd(b.y, b.height) = FromInt(abs_chart.svg_height - padding)
                /\ RLe(FromInt(0), b.height)
                /\ b.text_y = RSub(b.y, FromInt(5))
                /\ ~b.flipped
                /\ ~RLt(b.text_y, FromInt(15))

\* a bar as tall as the plot: its top edge is on the padding line
C16_Witness ==
    /\ abs_chart.kind = "abs"
    /\ ValuesInRange
    /\ \E i \in 1..Len(abs_chart.bars) :
          /\ abs_chart.bars[i].value = 10000
          /\ abs_chart.bars[i].y = FromInt(padding)
          /\ abs_chart.bars[i].text_y = FromInt(35)

(***************************************************************************)
(* A classification flag outside {0, 1} (specification Spec)               *)
(***************************************************************************)
FlagOutOfRange ==
    /\ upload.csv_name
    /\ IsTable
    /\ required_columns \subseteq upload.content.columns
    /\ used_columns \subseteq upload.content.columns
    /\ upload.content.nrows > 0
    /\ upload.content.tip \notin {0, 1}

\* C15: a record whose flag is neither 0 nor 1 passes input validation, gets
\* no instruction payload, and the invocation ends as an internal-processing
\* failure without a call to the generator or to the PDF renderer.
C15_FlagOutOfRangeIsInternalFailure ==
    FlagOutOfRange =>
        /\ gen_calls = 0
        /\ pdf_calls = 0
        /\ prompt = NoPrompt
        /\ response.status \notin {200, validation_status}
        /\ Ended => /\ response.status = internal_error_status
                    /\ response = Handler(Raised("UnboundLocalError"))
                    /\ row = CurrentRowData(df)
                    /\ row["tip"] = upload.content.tip

C15_Witness ==
    /\ FlagOutOfRange
    /\ pc = "failed"
    /\ row # NoRow
    /\ row["tip"] = 2
    /\ response.status = 500
====
